---------------------------- MODULE Spec2Model ----------------------------
(***************************************************************************)
(* PgSchema::delete and PgSchema::update of src/src/schema.rs.             *)
(*                                                                         *)
(* A statement under construction is a sqlx QueryBuilder: the SQL text,    *)
(* kept here as the sequence of the fragments pushed so far, and the list  *)
(* of bound arguments.  Two calls run concurrently, each on a connection   *)
(* of its own; every call is cut into the steps of its body.               *)
(***************************************************************************)
EXTENDS Integers, Sequences, FiniteSets, TLC

\* The concurrent calls, each with its own connection.
Calls == {"a", "b"}

\* Identity values are 1..MaxId; an iterator yields at most MaxIds of them.
MaxId == 2
MaxIds == 2

Id == 1 .. MaxId
IdSeqs == UNION {[1 .. n -> Id] : n \in 0 .. MaxIds}

\* The type parameters TTable / TColumns a call is instantiated with.
Descriptors ==
    { [TABLE_NAME |-> "jobs", DEFAULT_ALIAS |-> "J",
       columns |-> <<"id", "name", "rate">>, keys |-> <<"id">>],
      [TABLE_NAME |-> "rates", DEFAULT_ALIAS |-> "R",
       columns |-> <<"org", "id", "fee">>, keys |-> <<"org", "id">>] }

NoDescriptor ==
    [TABLE_NAME |-> "", DEFAULT_ALIAS |-> "", columns |-> <<>>, keys |-> <<>>]

NoInput == [op |-> "none", desc |-> NoDescriptor, ids |-> <<>>]

---------------------------------------------------------------------------
(* sqlx::QueryBuilder *)

NoQuery == [built |-> FALSE, sql |-> <<>>, args |-> <<>>]

QueryBuilderNew(init) == [built |-> TRUE, sql |-> <<init>>, args |-> <<>>]

Push(q, s) == [q EXCEPT !.sql = Append(@, s)]

PushAll(q, ss) == [q EXCEPT !.sql = @ \o ss]

\* push_bind: the argument is appended, then its placeholder "$<count>".
PushBind(q, v) ==
    [q EXCEPT !.args = Append(@, v),
              !.sql = Append(@, "$" \o ToString(Len(q.args) + 1))]

\* The statement handed to the connection by query.prepare().
Prepare(q) == [sql |-> q.sql, args |-> q.args]

---------------------------------------------------------------------------
(* clinvoice_match::Match and the predicate compiler *)

MatchFrom(v) == [tag |-> "EqualTo", value |-> v, children |-> <<>>]

MatchOr(ms) == [tag |-> "Or", value |-> 0, children |-> ms]

RECURSIVE WriteMatch(_, _, _)
RECURSIVE WriteOrChildren(_, _, _, _)

WriteMatch(q, ident, m) ==
    IF m.tag = "EqualTo"
    THEN PushBind(PushAll(q, <<ident, " = ">>), m.value)
    ELSE IF m.children = <<>>
         THEN Push(q, "FALSE")
         ELSE WriteOrChildren(q, ident, m.children, 1)

WriteOrChildren(q, ident, cs, i) ==
    LET one == Push(WriteMatch(Push(q, "("), ident, cs[i]), ")")
    IN  IF i = Len(cs)
        THEN one
        ELSE WriteOrChildren(Push(one, " OR "), ident, cs, i + 1)

WriteWhereClause(context, ident, m, q) ==
    WriteMatch(Push(q, IF context = "BeforeWhereClause" THEN " WHERE " ELSE " AND "),
               ident, m)

---------------------------------------------------------------------------
(* clinvoice_adapter::fmt *)

As(table, alias) == <<table, " AS ", alias>>

SnakeCase(left, right) == left \o "_" \o right

RECURSIVE Joined(_, _)
\* The fragments `parts` (a sequence of sequences) separated by `sep`.
Joined(parts, sep) ==
    IF parts = <<>> THEN <<>>
    ELSE IF Len(parts) = 1 THEN parts[1]
    ELSE parts[1] \o <<sep>> \o Joined(Tail(parts), sep)

IsKey(desc, c) == \E k \in 1 .. Len(desc.keys) : desc.keys[k] = c

NonKeyColumns(desc) == SelectSeq(desc.columns, LAMBDA c : ~IsKey(desc, c))

PushSetTo(q, desc, values_alias) ==
    LET cs == NonKeyColumns(desc)
    IN  PushAll(q, Joined([i \in 1 .. Len(cs) |->
                              <<cs[i], " = ", values_alias, ".", cs[i]>>], ","))

PushColumns(q, desc) ==
    PushAll(q, Joined([i \in 1 .. Len(desc.columns) |-> <<desc.columns[i]>>], ","))

PushUpdateWhereTo(q, desc, table_alias, values_alias) ==
    PushAll(q, Joined([i \in 1 .. Len(desc.keys) |->
                          <<table_alias, ".", desc.keys[i], " = ",
                            values_alias, ".", desc.keys[i]>>], " AND "))

---------------------------------------------------------------------------
(* The push_values callback of update, as in its documentation:            *)
(* |query| query.push_values(rows, |mut q, row| q.push_bind(..) ...)       *)

FieldOf(k, c) == ToString(k) \o "." \o c

RECURSIVE PushTuple(_, _, _, _)
PushTuple(q, desc, k, i) ==
    IF i > Len(desc.columns)
    THEN q
    ELSE PushTuple(PushBind(IF i = 1 THEN q ELSE Push(q, ", "),
                            FieldOf(k, desc.columns[i])),
                   desc, k, i + 1)

RECURSIVE PushRows(_, _, _, _)
PushRows(q, desc, rows, r) ==
    IF r > Len(rows)
    THEN q
    ELSE PushRows(Push(PushTuple(Push(IF r = 1 THEN q ELSE Push(q, ", "), "("),
                                 desc, rows[r], 1), ")"),
                  desc, rows, r + 1)

PushValues(q, desc, rows) == PushRows(Push(q, "VALUES "), desc, rows, 1)

---------------------------------------------------------------------------
(* The connection *)

OkResult == [tag |-> "Ok", err |-> <<>>]
Pending == [tag |-> "Pending", err |-> <<>>]
Err(e) == [tag |-> "Err", err |-> e]

\* PostgreSQL rejects a VALUES list without a row.
Accepts(stmt) ==
    \A i \in 1 .. Len(stmt.sql) - 1 :
        stmt.sql[i] = "VALUES " => stmt.sql[i + 1] # ")"

\* What execute returns: an I/O failure, the server's rejection, or success.
Execute(stmt, fault) ==
    IF fault THEN Err(<<"Io">>)
    ELSE IF Accepts(stmt) THEN OkResult
    ELSE Err(<<"Database">>)

---------------------------------------------------------------------------
(* State *)

VARIABLES
    pc,                 \* each call's position in its body
    input,              \* each call's arguments
    peekable_entities,  \* delete: what the iterator has yet to yield
    query,              \* each call's `query` local
    push_values_calls,  \* update: how often the callback was invoked
    conn,               \* each connection: what was asked of it, in order
    result              \* what each call returned

vars == <<pc, input, peekable_entities, query, push_values_calls, conn, result>>

Init ==
    /\ pc = [p \in Calls |-> "idle"]
    /\ input = [p \in Calls |-> NoInput]
    /\ peekable_entities = [p \in Calls |-> <<>>]
    /\ query = [p \in Calls |-> NoQuery]
    /\ push_values_calls = [p \in Calls |-> 0]
    /\ conn = [p \in Calls |-> <<>>]
    /\ result = [p \in Calls |-> Pending]

---------------------------------------------------------------------------
(* The steps of delete *)

\* Faulty variant: one builder shared by all calls.
BuilderShared(p) == "a"

\* The builder a call's `query` local names.
Builder(p) == p

\* Faulty variant: the emptiness check never fires.
PeekIsNoneNever(iter) == FALSE

PeekIsNone(iter) == iter = <<>>

DeleteNew(table) == PushAll(QueryBuilderNew("DELETE"), <<" FROM ", table>>)

\* Faulty variant: `next()` in place of `peek()` loses the first id.
DeleteMatchSkipFirst(iter) ==
    MatchOr([i \in 1 .. Len(iter) - 1 |-> MatchFrom(iter[i + 1])])

\* Faulty variant: the ids are collected back to front.
DeleteMatchReversed(iter) ==
    MatchOr([i \in 1 .. Len(iter) |-> MatchFrom(iter[Len(iter) + 1 - i])])

DeleteMatch(iter) == MatchOr([i \in 1 .. Len(iter) |-> MatchFrom(iter[i])])

DeleteWhere(q, iter) ==
    WriteWhereClause("BeforeWhereClause", "id", DeleteMatch(iter), q)

\* Faulty variant: the failure is wrapped in an error naming the table.
ReturnedWithTable(table, outcome) ==
    IF outcome.tag = "Err" THEN Err(<<"Delete", table>> \o outcome.err) ELSE outcome

\* `execute(..).await?; Ok(())`: the failure as it is, or Ok(()).
Returned(table, outcome) == outcome

\* Faulty variant: a failed execute is tried again.
AfterExecuteRetry(here, outcome) == IF outcome.tag = "Err" THEN here ELSE "done"

\* Where a call goes after its execute came back.
AfterExecute(here, outcome) == "done"

DeleteCall(p) ==
    /\ pc[p] = "idle"
    /\ \E d \in Descriptors, ids \in IdSeqs :
          /\ input' = [input EXCEPT ![p] = [op |-> "delete", desc |-> d, ids |-> ids]]
          /\ peekable_entities' = [peekable_entities EXCEPT ![p] = ids]
    /\ pc' = [pc EXCEPT ![p] = "d_peek"]
    /\ UNCHANGED <<query, push_values_calls, conn, result>>

DeletePeek(p) ==
    /\ pc[p] = "d_peek"
    /\ IF PeekIsNone(peekable_entities[p])
       THEN /\ result' = [result EXCEPT ![p] = OkResult]
            /\ pc' = [pc EXCEPT ![p] = "done"]
       ELSE /\ pc' = [pc EXCEPT ![p] = "d_new"]
            /\ UNCHANGED result
    /\ UNCHANGED <<input, peekable_entities, query, push_values_calls, conn>>

DeleteBuild(p) ==
    /\ pc[p] = "d_new"
    /\ query' = [query EXCEPT ![Builder(p)] = DeleteNew(input[p].desc.TABLE_NAME)]
    /\ pc' = [pc EXCEPT ![p] = "d_where"]
    /\ UNCHANGED <<input, peekable_entities, push_values_calls, conn, result>>

DeleteWriteWhere(p) ==
    /\ pc[p] = "d_where"
    /\ query' = [query EXCEPT ![Builder(p)] =
                    DeleteWhere(query[Builder(p)], peekable_entities[p])]
    /\ peekable_entities' = [peekable_entities EXCEPT ![p] = <<>>]
    /\ pc' = [pc EXCEPT ![p] = "d_exec"]
    /\ UNCHANGED <<input, push_values_calls, conn, result>>

---------------------------------------------------------------------------
(* The steps of update *)

\* Faulty variant: the derived table is given the target's own alias.
ValuesAliasOfTarget(desc) == desc.DEFAULT_ALIAS

ValuesAlias(desc) == SnakeCase(desc.DEFAULT_ALIAS, "V")

UpdateNew(desc) ==
    PushAll(QueryBuilderNew("UPDATE "),
            As(desc.TABLE_NAME, desc.DEFAULT_ALIAS) \o <<" SET ">>)

UpdateSet(q, desc) == PushSetTo(q, desc, ValuesAlias(desc))

UpdateFrom(q) == PushAll(q, <<" FROM ", "(">>)

\* Faulty variant: the derived alias is written before the values are closed.
UpdateTailAliasFirst(q, desc) ==
    PushAll(PushColumns(PushAll(q, <<" AS ", ValuesAlias(desc), ")", " (">>), desc),
            <<")", " WHERE ">>)

\* Faulty variant: the column list is left out.
UpdateTailNoColumns(q, desc) ==
    PushAll(q, <<")", " AS ", ValuesAlias(desc), " (", ")", " WHERE ">>)

UpdateTail(q, desc) ==
    PushAll(PushColumns(PushAll(q, <<")", " AS ", ValuesAlias(desc), " (">>), desc),
            <<")", " WHERE ">>)

UpdateWhere(q, desc) ==
    PushUpdateWhereTo(q, desc, desc.DEFAULT_ALIAS, ValuesAlias(desc))

UpdateCall(p) ==
    /\ pc[p] = "idle"
    /\ \E d \in Descriptors, rows \in IdSeqs :
          input' = [input EXCEPT ![p] = [op |-> "update", desc |-> d, ids |-> rows]]
    /\ pc' = [pc EXCEPT ![p] = "u_new"]
    /\ UNCHANGED <<peekable_entities, query, push_values_calls, conn, result>>

UpdateBuild(p) ==
    /\ pc[p] = "u_new"
    /\ query' = [query EXCEPT ![Builder(p)] = UpdateNew(input[p].desc)]
    /\ pc' = [pc EXCEPT ![p] = "u_set"]
    /\ UNCHANGED <<input, peekable_entities, push_values_calls, conn, result>>

UpdatePushSet(p) ==
    /\ pc[p] = "u_set"
    /\ query' = [query EXCEPT ![Builder(p)] = UpdateSet(query[Builder(p)], input[p].desc)]
    /\ pc' = [pc EXCEPT ![p] = "u_from"]
    /\ UNCHANGED <<input, peekable_entities, push_values_calls, conn, result>>

UpdatePushFrom(p) ==
    /\ pc[p] = "u_from"
    /\ query' = [query EXCEPT ![Builder(p)] = UpdateFrom(query[Builder(p)])]
    /\ pc' = [pc EXCEPT ![p] = "u_values"]
    /\ UNCHANGED <<input, peekable_entities, push_values_calls, conn, result>>

UpdatePushValues(p) ==
    /\ pc[p] = "u_values"
    /\ query' = [query EXCEPT ![Builder(p)] =
                    PushValues(query[Builder(p)], input[p].desc, input[p].ids)]
    /\ push_values_calls' = [push_values_calls EXCEPT ![p] = @ + 1]
    /\ pc' = [pc EXCEPT ![p] = "u_tail"]
    /\ UNCHANGED <<input, peekable_entities, conn, result>>

UpdatePushTail(p) ==
    /\ pc[p] = "u_tail"
    /\ query' = [query EXCEPT ![Builder(p)] = UpdateTail(query[Builder(p)], input[p].desc)]
    /\ pc' = [pc EXCEPT ![p] = "u_where"]
    /\ UNCHANGED <<input, peekable_entities, push_values_calls, conn, result>>

UpdateWriteWhere(p) ==
    /\ pc[p] = "u_where"
    /\ query' = [query EXCEPT ![Builder(p)] = UpdateWhere(query[Builder(p)], input[p].desc)]
    /\ pc' = [pc EXCEPT ![p] = "u_exec"]
    /\ UNCHANGED <<input, peekable_entities, push_values_calls, conn, result>>

---------------------------------------------------------------------------
(* query.prepare().execute(connection).await?; Ok(()) -- of both operations. *)
(* The call returns here, and its builder is dropped, unless it stays at    *)
(* the execute.                                                            *)

ExecuteStep(p) ==
    /\ pc[p] \in {"d_exec", "u_exec"}
    /\ \E fault \in BOOLEAN :
          LET stmt == Prepare(query[Builder(p)])
              outcome == Execute(stmt, fault)
              next == AfterExecute(pc[p], outcome)
          IN  /\ conn' = [conn EXCEPT ![p] =
                             Append(@, [action |-> "execute", stmt |-> stmt,
                                        returned |-> outcome])]
              /\ pc' = [pc EXCEPT ![p] = next]
              /\ IF next = "done"
                 THEN /\ result' = [result EXCEPT ![p] =
                                       Returned(input[p].desc.TABLE_NAME, outcome)]
                      /\ query' = [query EXCEPT ![Builder(p)] = NoQuery]
                 ELSE UNCHANGED <<result, query>>
    /\ UNCHANGED <<input, peekable_entities, push_values_calls>>

Next ==
    \E p \in Calls :
        \/ DeleteCall(p)
        \/ DeletePeek(p)
        \/ DeleteBuild(p)
        \/ DeleteWriteWhere(p)
        \/ UpdateCall(p)
        \/ UpdateBuild(p)
        \/ UpdatePushSet(p)
        \/ UpdatePushFrom(p)
        \/ UpdatePushValues(p)
        \/ UpdatePushTail(p)
        \/ UpdateWriteWhere(p)
        \/ ExecuteStep(p)

Spec == Init /\ [][Next]_vars

---------------------------------------------------------------------------
(* Properties *)

Executed(p) == conn[p] # <<>>

Stmt(p) == conn[p][1].stmt

IndexOf(s, tok) == CHOOSE i \in 1 .. Len(s) : s[i] = tok

Count(s, tok) == Len(SelectSeq(s, LAMBDA t : t = tok))

PlaceholderOf(i) == "$" \o ToString(i)

\* The placeholders of a text, in the order they were written.
Placeholders(sql) ==
    LET all == {PlaceholderOf(i) : i \in 1 .. Len(sql)}
    IN  SelectSeq(sql, LAMBDA t : t \in all)

Numbered(n) == [i \in 1 .. n |-> PlaceholderOf(i)]

\* (id = $1) OR (id = $2) OR ... OR (id = $n), fragment by fragment.
OrChain(n) ==
    [j \in 1 .. 6 * n - 1 |->
        CASE (j - 1) % 6 = 0 -> "("
          [] (j - 1) % 6 = 1 -> "id"
          [] (j - 1) % 6 = 2 -> " = "
          [] (j - 1) % 6 = 3 -> PlaceholderOf((j - 1) \div 6 + 1)
          [] (j - 1) % 6 = 4 -> ")"
          [] OTHER -> " OR "]

Distinct(ids) == \A i, j \in 1 .. Len(ids) : ids[i] = ids[j] => i = j

Values(ids) == {ids[i] : i \in 1 .. Len(ids)}

\* C1: a delete whose ids iterator yields nothing never builds a query, asks
\* nothing of its connection, and returns Ok(()).
C1_EmptyDeleteExecutesNothing ==
    \A p \in Calls :
        (input[p].op = "delete" /\ input[p].ids = <<>>) =>
            /\ pc[p] \in {"d_peek", "done"}
            /\ query[p] = NoQuery
            /\ conn[p] = <<>>
            /\ pc[p] = "done" => result[p] = OkResult

C1_Witness ==
    \E p \in Calls :
        input[p].op = "delete" /\ input[p].ids = <<>> /\ pc[p] = "done"

\* C2: a delete over a non-empty ids executes exactly one statement, whose
\* WHERE fragment is the OR of one equality term per id yielded, in input
\* order (for ids without repetition: |S| terms, one per distinct value); a
\* delete over no ids executes no statement.
C2_DeleteOneTermPerId ==
    \A p \in Calls :
        input[p].op = "delete" =>
            LET ids == input[p].ids
                n == Len(ids)
            IN  /\ ids = <<>> => conn[p] = <<>>
                /\ Len(conn[p]) <= 1
                /\ (ids # <<>> /\ pc[p] = "done") =>
                      /\ Len(conn[p]) = 1
                      /\ Stmt(p).sql =
                            <<"DELETE", " FROM ", input[p].desc.TABLE_NAME, " WHERE ">>
                                \o OrChain(n)
                      /\ \A i \in 1 .. n : Stmt(p).args[i] = ids[i]
                      /\ Count(Stmt(p).sql, " = ") = n
                      /\ Distinct(ids) =>
                            Count(Stmt(p).sql, " = ") = Cardinality(Values(ids))

C2_Witness ==
    \E p \in Calls :
        /\ input[p].op = "delete" /\ pc[p] = "done"
        /\ Len(input[p].ids) >= 2 /\ Distinct(input[p].ids)
        /\ Executed(p)

\* The text of an update, stage by stage.
UpdateHead(d) == <<"UPDATE ", d.TABLE_NAME, " AS ", d.DEFAULT_ALIAS, " SET ">>
SetPart(d) == PushSetTo(NoQuery, d, ValuesAlias(d)).sql
ValuesPart(d, rows) == PushValues(NoQuery, d, rows).sql
ColumnsPart(d) == PushColumns(NoQuery, d).sql
JoinPart(d) == PushUpdateWhereTo(NoQuery, d, d.DEFAULT_ALIAS, ValuesAlias(d)).sql
UpToFrom(d) == UpdateHead(d) \o SetPart(d) \o <<" FROM ", "(">>
UpToWhere(d, rows) ==
    UpToFrom(d) \o ValuesPart(d, rows) \o <<")", " AS ", ValuesAlias(d), " (">>
        \o ColumnsPart(d) \o <<")", " WHERE ">>

\* C3: the text of an update is assembled as UPDATE, table AS alias, SET, the
\* assignments, FROM, "(", what push_values appends, ")", AS, the derived
\* alias, "(" columns ")", WHERE, the key-join predicate; push_values is
\* invoked once, between the SET clause and the derived alias; the statement
\* is executed only once the predicate is written.
C3_UpdateAssemblyOrder ==
    \A p \in Calls :
        input[p].op = "update" =>
            LET d == input[p].desc
                rows == input[p].ids
                sql == query[p].sql
                n == push_values_calls[p]
            IN  /\ pc[p] = "u_new" => sql = <<>> /\ n = 0
                /\ pc[p] = "u_set" => sql = UpdateHead(d) /\ n = 0
                /\ pc[p] = "u_from" => sql = UpdateHead(d) \o SetPart(d) /\ n = 0
                /\ pc[p] = "u_values" => sql = UpToFrom(d) /\ n = 0
                /\ pc[p] = "u_tail" => sql = UpToFrom(d) \o ValuesPart(d, rows) /\ n = 1
                /\ pc[p] = "u_where" => sql = UpToWhere(d, rows) /\ n = 1
                /\ pc[p] = "u_exec" => sql = UpToWhere(d, rows) \o JoinPart(d) /\ n = 1
                /\ pc[p] # "done" => conn[p] = <<>>
                /\ Executed(p) =>
                      /\ Stmt(p).sql = UpToWhere(d, rows) \o JoinPart(d)
                      /\ n = 1

C3_Witness ==
    \E p \in Calls :
        /\ input[p].op = "update" /\ input[p].ids # <<>>
        /\ Executed(p) /\ result[p] = OkResult

\* C4 (as claimed): an update whose push_values contributes no tuple does not
\* error: unless the connection itself fails, the call returns Ok(()).
C4_EmptyUpdateSucceeds ==
    \A p \in Calls :
        (/\ input[p].op = "update" /\ input[p].ids = <<>>
         /\ pc[p] = "done" /\ result[p].err # <<"Io">>)
            => result[p] = OkResult

\* C5 (as claimed): when the execute of delete fails, the error returned
\* carries the table name.
C5_DeleteErrorNamesTable ==
    \A p \in Calls :
        (input[p].op = "delete" /\ pc[p] = "done" /\ result[p].tag = "Err") =>
            \E i \in 1 .. Len(result[p].err) :
                result[p].err[i] = input[p].desc.TABLE_NAME

\* C5 (amended): when the execute of delete fails, delete returns the
\* connection's failure as it is, with no table name attached.
C5_DeleteErrorUnchanged ==
    \A p \in Calls :
        (input[p].op = "delete" /\ pc[p] = "done" /\ Executed(p)) =>
            /\ result[p] = conn[p][1].returned
            /\ result[p].tag = "Err" =>
                  /\ result[p].err \in {<<"Io">>, <<"Database">>}
                  /\ \A i \in 1 .. Len(result[p].err) :
                        result[p].err[i] # input[p].desc.TABLE_NAME

C5_Witness ==
    \E p \in Calls :
        /\ input[p].op = "delete" /\ pc[p] = "done"
        /\ Executed(p) /\ result[p].tag = "Err"

\* C6: a call asks at most one thing of its connection, one execute; it has
\* returned once that execute came back, with what the execute returned: the
\* failure unchanged, or Ok(()); nothing is retried, committed or rolled back.
C6_OneExecuteNoRetry ==
    \A p \in Calls :
        /\ Len(conn[p]) <= 1
        /\ \A i \in 1 .. Len(conn[p]) : conn[p][i].action = "execute"
        /\ Executed(p) =>
              /\ pc[p] = "done"
              /\ result[p] = conn[p][1].returned
              /\ result[p].tag \in {"Ok", "Err"}
        /\ pc[p] # "done" => result[p] = Pending

C6_Witness ==
    \E p \in Calls :
        /\ input[p].op = "update" /\ pc[p] = "done"
        /\ Executed(p) /\ result[p] = Err(<<"Io">>)

\* C7: the derived alias of an update is the default alias joined with "V",
\* differs from the default alias, and is the one alias on the right of every
\* SET assignment, after the values' AS, and on the right of every equation
\* of the WHERE predicate, whose left side carries the default alias.
C7_DerivedAlias ==
    \A p \in Calls :
        (input[p].op = "update" /\ Executed(p)) =>
            LET s == Stmt(p).sql
                alias == input[p].desc.DEFAULT_ALIAS
                derived == alias \o "_" \o "V"
                from == IndexOf(s, " FROM ")
                where == IndexOf(s, " WHERE ")
            IN  /\ derived # alias
                /\ \A i \in 1 .. from - 1 :
                      s[i] = " = " => s[i + 1] = derived /\ s[i + 2] = "."
                /\ \E i \in from + 1 .. where - 1 : s[i] = " AS "
                /\ \A i \in from + 1 .. where - 1 :
                      s[i] = " AS " => s[i + 1] = derived
                /\ \E i \in where + 1 .. Len(s) : s[i] = " = "
                /\ \A i \in where + 1 .. Len(s) :
                      s[i] = " = " =>
                          /\ s[i + 1] = derived /\ s[i + 2] = "."
                          /\ s[i - 3] = alias /\ s[i - 2] = "."
                /\ \A i \in 1 .. Len(s) :
                      s[i] = "." => s[i - 1] \in {alias, derived}

C7_Witness ==
    \E p \in Calls :
        /\ input[p].op = "update" /\ Executed(p)
        /\ Count(Stmt(p).sql, input[p].desc.DEFAULT_ALIAS \o "_V") >= 3

\* C8: an update has as many SET assignments as the descriptor has columns
\* that are no key, each assigning a non-key column from the derived column
\* of its name; the derived table's column list is the descriptor's, in its
\* order.
C8_SetAndColumnList ==
    \A p \in Calls :
        (input[p].op = "update" /\ Executed(p)) =>
            LET s == Stmt(p).sql
                d == input[p].desc
                from == IndexOf(s, " FROM ")
                open == IndexOf(s, " (")
                where == IndexOf(s, " WHERE ")
                keys == {d.keys[k] : k \in 1 .. Len(d.keys)}
            IN  /\ Count(SubSeq(s, 1, from - 1), " = ") = Len(d.columns) - Len(d.keys)
                /\ \A i \in 1 .. from - 1 :
                      s[i] = " = " => s[i - 1] \notin keys /\ s[i + 3] = s[i - 1]
                /\ \A c \in 1 .. Len(d.columns) :
                      d.columns[c] \notin keys =>
                          \E i \in 1 .. from - 1 : s[i] = " = " /\ s[i - 1] = d.columns[c]
                /\ s[where - 1] = ")"
                /\ SelectSeq(SubSeq(s, open + 1, where - 2), LAMBDA t : t # ",")
                      = d.columns

C8_Witness ==
    \E p \in Calls :
        /\ input[p].op = "update" /\ Executed(p)
        /\ Len(input[p].desc.keys) = 2 /\ Len(input[p].ids) >= 1

\* C9: in every builder and every executed statement the placeholders are
\* $1, $2, ..., $n in the order written, n the number of bound arguments; a
\* delete over ids v1..vn executes (id = $1) OR ... OR (id = $n) with the
\* arguments v1..vn.
C9_PlaceholdersMatchArguments ==
    \A p \in Calls :
        /\ Placeholders(query[p].sql) = Numbered(Len(query[p].args))
        /\ Executed(p) =>
              Placeholders(Stmt(p).sql) = Numbered(Len(Stmt(p).args))
        /\ (Executed(p) /\ input[p].op = "delete") =>
              /\ SubSeq(Stmt(p).sql, 5, Len(Stmt(p).sql)) = OrChain(Len(input[p].ids))
              /\ Stmt(p).args = input[p].ids
        /\ (Executed(p) /\ input[p].op = "update") =>
              Len(Stmt(p).args) = Len(input[p].ids) * Len(input[p].desc.columns)

C9_Witness ==
    \E p, o \in Calls :
        /\ input[p].op = "delete" /\ Executed(p) /\ Len(input[p].ids) >= 2
        /\ input[o].op = "update" /\ pc[o] = "u_tail" /\ Len(query[o].args) >= 6

\* The statement a call executes when it runs alone.
Alone(in) ==
    IF in.op = "delete"
    THEN Prepare(DeleteWhere(DeleteNew(in.desc.TABLE_NAME), in.ids))
    ELSE Prepare(UpdateWhere(UpdateTail(PushValues(UpdateFrom(UpdateSet(
             UpdateNew(in.desc), in.desc)), in.desc, in.ids), in.desc), in.desc))

OwnBuilder ==
    \A p \in Calls :
        /\ query[p].built <=>
              pc[p] \in {"d_where", "d_exec", "u_set", "u_from", "u_values",
                         "u_tail", "u_where", "u_exec"}
        /\ Executed(p) => Stmt(p) = Alone(input[p])

OthersLeaveBuilderAlone ==
    \A p \in Calls : pc'[p] = pc[p] => query'[p] = query[p]

\* C10: a call has a builder of its own from its QueryBuilder::new to its
\* execute and none after; no step of another call changes it; whatever the
\* interleaving, the statement a call executes is the one it executes alone.
C10_CallsDoNotInterfere == []OwnBuilder /\ [][OthersLeaveBuilderAlone]_vars

C10_Witness ==
    \E p, o \in Calls :
        /\ input[p].op = "delete" /\ Executed(p) /\ input[p].ids # <<>>
        /\ input[o].op = "update" /\ pc[o] = "u_where" /\ input[o].ids # <<>>

=============================================================================
